---- MODULE Spec2Model ----
(***************************************************************************)
(* Request-processing pipeline of the Telegram/LLM bridge service:         *)
(* app/api.py (puzzlebot_ai, _process_request, get_request_log),           *)
(* app/schemas.py (PuzzlebotAIRequest), app/middleware.py (request         *)
(* logging), app/services/telegram.py (send_message, _split_text),         *)
(* app/services/llm.py (openai_chat_completion) and the request_logs       *)
(* table of app/models.py.                                                 *)
(*                                                                         *)
(* Spec and FairSpec are the pipeline; SendSpec, ChatSpec and SplitSpec    *)
(* are one call of send_message, openai_chat_completion and _split_text;   *)
(* ModeSpec is the prompt resolution of _process_request for one body.     *)
(***************************************************************************)
EXTENDS Integers, Sequences, FiniteSets, TLC

(***************************************************************************)
(* Bounds of the model.                                                    *)
(***************************************************************************)
\* number of inbound requests the service receives in one behaviour
MaxRequests == 2

Rids == 1..MaxRequests

(***************************************************************************)
(* Values.                                                                 *)
(***************************************************************************)
\* Python's None for string-valued fields
None == "<None>"
\* Python's None for text-valued locals (texts are sequences of characters)
NoText == <<"<None>">>

\* FALLBACK_ERROR_TEXT, api.py:24 (38 characters)
FALLBACK_ERROR_TEXT == [i \in 1..38 |-> "x"]

\* TELEGRAM_SAFE_LIMIT, telegram.py:12
TELEGRAM_SAFE_LIMIT == 3900

\* Python truthiness of a str | None text
Truthy(t) == t # NoText /\ t # <<>>
\* Python truthiness of a str | None string field
TruthyStr(s) == s # None /\ s # ""

Range(s) == {s[i] : i \in DOMAIN s}

(***************************************************************************)
(* Text helpers (Python str operations on sequences of characters).        *)
(***************************************************************************)
NL == "\n"
\* characters removed by str.strip()
Whitespace == {" ", NL, "\t", "\r"}

Take(s, n) == SubSeq(s, 1, IF n < Len(s) THEN n ELSE Len(s))
Drop(s, n) == SubSeq(s, n + 1, Len(s))

\* str.strip()
RECURSIVE LStrip(_)
LStrip(s) == IF s # <<>> /\ Head(s) \in Whitespace THEN LStrip(Tail(s)) ELSE s
RECURSIVE RStrip(_)
RStrip(s) ==
  IF s # <<>> /\ s[Len(s)] \in Whitespace THEN RStrip(SubSeq(s, 1, Len(s) - 1)) ELSE s
Strip(s) ==
  IF \A i \in 1..Len(s) : s[i] \in Whitespace THEN <<>> ELSE RStrip(LStrip(s))

\* str.split(sep) with an explicit separator: leftmost, non-overlapping
RECURSIVE StrSplit(_, _)
StrSplit(s, sep) ==
  LET hits == {i \in 1..(Len(s) - Len(sep) + 1) : SubSeq(s, i, i + Len(sep) - 1) = sep}
  IN IF hits = {} THEN <<s>>
     ELSE LET i == CHOOSE j \in hits : \A k \in hits : j <= k
          IN <<SubSeq(s, 1, i - 1)>> \o StrSplit(Drop(s, i + Len(sep) - 1), sep)

(***************************************************************************)
(* _split_text, telegram.py:15-68.                                         *)
(***************************************************************************)
\* HardCut without the cut: the over-long line goes out as one chunk
HardCutWhole(s, limit) == IF s = <<>> THEN <<>> ELSE <<s>>

\* while s: chunks.append(s[:limit]); s = s[limit:]     (telegram.py:59-62)
RECURSIVE HardCut(_, _)
HardCut(s, limit) ==
  IF s = <<>> THEN <<>> ELSE <<Take(s, limit)>> \o HardCut(Drop(s, limit), limit)

\* for line in lines: ...  (telegram.py:50-62); st = [chunks, line_buf]
RECURSIVE LineLoop(_, _, _)
LineLoop(lines, st, limit) ==
  IF lines = <<>> THEN st
  ELSE LET line == Head(lines)
           cand2 == Strip(st.line_buf \o (IF st.line_buf # <<>> THEN <<NL>> ELSE <<>>) \o line)
       IN IF Len(cand2) <= limit
          THEN LineLoop(Tail(lines), [st EXCEPT !.line_buf = cand2], limit)
          ELSE LineLoop(Tail(lines),
                        [chunks |-> st.chunks
                                    \o (IF st.line_buf # <<>> THEN <<st.line_buf>> ELSE <<>>)
                                    \o HardCut(line, limit),
                         line_buf |-> <<>>],
                        limit)

\* for p in parts: ...  (telegram.py:34-64); st = [chunks, buf]
RECURSIVE PartLoop(_, _, _)
PartLoop(parts, st, limit) ==
  IF parts = <<>> THEN st
  ELSE LET p == Head(parts)
           candidate == Strip(st.buf \o (IF st.buf # <<>> THEN <<NL, NL>> ELSE <<>>) \o p)
           flushed == st.chunks \o (IF st.buf # <<>> THEN <<st.buf>> ELSE <<>>)
       IN IF Len(candidate) <= limit
          THEN PartLoop(Tail(parts), [st EXCEPT !.buf = candidate], limit)
          ELSE IF Len(p) <= limit
          THEN PartLoop(Tail(parts), [chunks |-> flushed \o <<Strip(p)>>, buf |-> <<>>], limit)
          ELSE LET ls == LineLoop(StrSplit(p, <<NL>>),
                                  [chunks |-> flushed, line_buf |-> <<>>], limit)
               IN PartLoop(Tail(parts),
                           [chunks |-> ls.chunks
                                       \o (IF ls.line_buf # <<>> THEN <<ls.line_buf>> ELSE <<>>),
                            buf |-> <<>>],
                           limit)

\* _split_text without the flush after the loop (telegram.py:66): what is
\* left in buf is lost
_split_text_no_flush(text0, limit) ==
  LET text == IF text0 = NoText THEN <<>> ELSE text0
  IN IF Len(text) <= limit THEN <<text>>
     ELSE LET st == PartLoop(StrSplit(text, <<NL, NL>>), [chunks |-> <<>>, buf |-> <<>>], limit)
          IN SelectSeq(st.chunks, LAMBDA c : c # <<>>)

_split_text(text0, limit) ==
  LET text == IF text0 = NoText THEN <<>> ELSE text0
  IN IF Len(text) <= limit THEN <<text>>
     ELSE LET st == PartLoop(StrSplit(text, <<NL, NL>>), [chunks |-> <<>>, buf |-> <<>>], limit)
              chunks == st.chunks \o (IF st.buf # <<>> THEN <<st.buf>> ELSE <<>>)
          IN SelectSeq(chunks, LAMBDA c : c # <<>>)

(***************************************************************************)
(* Inbound payloads (the bytes of the request body) and their validation,  *)
(* schemas.py:41-88.  A JSON object is a record whose domain is the set    *)
(* of keys present in the body.                                            *)
(***************************************************************************)
\* the bot credential of the caller, as its characters
BOT_TOKEN == <<"1", "2", "3", "4", "5", "6", ":", "A", "B", "C", "D", "E", "F">>

ObjLiteral   == [prompt |-> "Say hi", bot_api_key |-> BOT_TOKEN, chat_id |-> 7]
ObjNoPrompt  == [bot_api_key |-> BOT_TOKEN, chat_id |-> 7]
ObjDailyPdf  == [prompt_id |-> "daily", params |-> [name |-> "Bob"],
                 bot_api_key |-> BOT_TOKEN, chat_id |-> 7, user_id |-> 5,
                 send_pdf |-> TRUE]
ObjDailyBare == [prompt_id |-> "daily", bot_api_key |-> BOT_TOKEN, chat_id |-> 7]
ObjUnknown   == [prompt_id |-> "nosuch", bot_api_key |-> BOT_TOKEN, chat_id |-> 7]
ObjNoChat    == [prompt |-> "Say hi", bot_api_key |-> BOT_TOKEN]

\* request bodies the service receives: JSON objects (with and without the
\* required fields), a JSON-encoded string holding an object, and bytes that
\* are not JSON
Payloads ==
  {[enc |-> "object", obj |-> o] :
      o \in {ObjLiteral, ObjNoPrompt, ObjDailyPdf, ObjDailyBare,
             ObjUnknown, ObjNoChat}}
  \cup {[enc |-> "string", obj |-> ObjLiteral], [enc |-> "garbage", obj |-> <<>>]}

\* json.loads(s) in _parse_json_string_body, schemas.py:80-88
JsonLoads(raw) ==
  CASE raw.enc = "object" -> [kind |-> "dict", val |-> raw.obj]
    [] raw.enc = "string" -> [kind |-> "str", val |-> raw.obj]
    [] OTHER              -> [kind |-> "error", val |-> <<>>]

\* required fields of PuzzlebotAIRequest, schemas.py:51-52
RequiredFields == {"bot_api_key", "chat_id"}

\* PuzzlebotAIRequest.model_validate(payload), api.py:315: the validated body,
\* or a ValidationError
model_validate(raw) ==
  LET parsed == JsonLoads(raw)
  IN IF parsed.kind = "dict" /\ RequiredFields \subseteq DOMAIN parsed.val
     THEN [ok |-> TRUE, body |-> parsed.val]
     ELSE [ok |-> FALSE, body |-> <<>>]

\* field access with the defaults of schemas.py:43-64
StrField(b, k) == IF k \in DOMAIN b THEN b[k] ELSE None
BodyParams(b)  == IF "params" \in DOMAIN b THEN b.params ELSE <<>>
BodySendPdf(b) == "send_pdf" \in DOMAIN b /\ b.send_pdf
\* body.user_id or 0
UserIdOr0(b)   == IF "user_id" \in DOMAIN b THEN b.user_id ELSE 0

(***************************************************************************)
(* Prompt store (table prompts, models.py:12-34) and template rendering    *)
(* (rendering.py:7-20).  A template is a sequence of literal pieces and    *)
(* {{ variable }} references.                                              *)
(***************************************************************************)
Lit(x) == [kind |-> "lit", v |-> x]
Var(x) == [kind |-> "var", v |-> x]

PromptStore == [daily |-> [system_template |-> <<Lit("You are an astrologer")>>,
                           user_template   |-> <<Lit("Forecast for"), Var("name")>>,
                           model |-> "gpt-4o", temperature |-> "0.7",
                           max_tokens |-> 512]]

\* render_template: StrictUndefined makes a missing variable an error
render_template(template, params) ==
  IF \E i \in DOMAIN template :
        template[i].kind = "var" /\ template[i].v \notin DOMAIN params
  THEN [ok |-> FALSE, text |-> NoText]
  ELSE [ok |-> TRUE,
        text |-> [i \in DOMAIN template |->
                    IF template[i].kind = "var" THEN params[template[i].v]
                    ELSE template[i].v]]

(***************************************************************************)
(* Request logging, middleware.py:19-76.                                   *)
(***************************************************************************)
\* _mask_secret, middleware.py:19-25 (keep_start = 6, keep_end = 4)
_mask_secret(value) ==
  IF Len(value) <= 6 + 4 THEN <<"*", "*", "*">>
  ELSE Take(value, 6) \o <<"*", "*", "*">> \o Drop(value, Len(value) - 4)

\* _safe_json_body, middleware.py:28-40: what the log line shows of the body
_safe_json_body(body_bytes) ==
  LET data == JsonLoads(body_bytes)
  IN CASE data.kind = "error" -> [kind |-> "None", val |-> <<>>]
       [] data.kind # "dict"  -> [kind |-> "_raw", val |-> data.val]
       [] OTHER ->
            [kind |-> "dict",
             val |-> IF "bot_api_key" \in DOMAIN data.val
                     THEN [data.val EXCEPT !.bot_api_key = _mask_secret(@)]
                     ELSE data.val]

\* the line PuzzlebotRequestLoggingMiddleware.dispatch writes once the handler
\* has answered, middleware.py:64-76
IncomingLine(body_bytes) ==
  [event |-> "incoming_puzzlebot", json |-> _safe_json_body(body_bytes)]

\* the completion line of _process_request, api.py:293-299
DoneLine(rid, l) ==
  [event |-> "puzzlebot_done", request_id |-> rid,
   detail |-> IF ~l.llm_ok THEN l.llm_error
              ELSE IF ~l.tg_ok THEN l.tg_error ELSE <<"ok">>]

(***************************************************************************)
(* State.                                                                  *)
(***************************************************************************)
VARIABLES
  apiKey,     \* settings.llm_api_key (settings.py:45)
  nextId,     \* the next request_id that uuid4 hands out (api.py:310)
  pc,         \* per request: where its handler / background task stands
  raw,        \* per request: the body it arrived with (api.py:314)
  body,       \* per request: the validated PuzzlebotAIRequest
  loc,        \* per request: the locals of _process_request (api.py:127-135)
  queue,      \* per request: chunks send_message has still to post
  rows,       \* table request_logs (models.py:38-60): per request_id, its rows in id order
  ack,        \* per request: the response the inbound caller received
  llmCalls,   \* per request: calls of openai_chat_completion so far
  posts,      \* per request: the posts made to the messaging API, in order
  persists,   \* per request: executions of the final persist so far
  logs,       \* per request: the log lines written for it, in order
  split,      \* a call of _split_text: its arguments and its result
  send,       \* a call of send_message: its chunks, its posts and how it ended
  chat,       \* a call of openai_chat_completion: its requests and how it ended
  mode        \* a run of the prompt resolution of _process_request: its body and result

vars == <<apiKey, nextId, pc, raw, body, loc, queue, rows, ack, llmCalls, posts,
          persists, logs, split, send, chat, mode>>

\* the calls that the component specifications below make on their own
calls == <<split, send, chat, mode>>

NoAck == [status |-> "none", request_id |-> 0, error |-> None]

\* api.py:127-135 and 188-189
InitLocals ==
  [rendered_system |-> NoText, rendered_user |-> NoText, llm_text |-> NoText,
   llm_ok |-> FALSE, tg_ok |-> FALSE, llm_error |-> NoText, tg_error |-> NoText,
   prompt_slug_for_log |-> "__raw__", pdf_bytes |-> FALSE, pdf_error |-> NoText]

\* no call of _split_text, send_message or openai_chat_completion is under way
NoSplit == [text |-> <<>>, limit |-> 1, returned |-> FALSE, chunks |-> <<>>]
NoSend == [state |-> "idle", text |-> <<>>, chunks |-> <<>>, posted |-> <<>>,
           exc |-> [type |-> "none", msg |-> <<>>]]
NoCompletion == [state |-> "idle", max_tokens |-> <<>>, requests |-> <<>>, responses |-> <<>>,
           raised |-> "none", text |-> NoText]

NoResolution == [body |-> <<>>, resolved |-> FALSE, raised |-> <<>>, l |-> <<>>,
                 params |-> <<>>]

\* no request has arrived
NoRequests ==
  /\ nextId = 1
  /\ pc = [r \in Rids |-> "idle"]
  /\ raw = [r \in Rids |-> [enc |-> "none", obj |-> <<>>]]
  /\ body = [r \in Rids |-> <<>>]
  /\ loc = [r \in Rids |-> InitLocals]
  /\ queue = [r \in Rids |-> <<>>]
  /\ rows = [r \in Rids |-> <<>>]
  /\ ack = [r \in Rids |-> NoAck]
  /\ llmCalls = [r \in Rids |-> 0]
  /\ posts = [r \in Rids |-> <<>>]
  /\ persists = [r \in Rids |-> 0]
  /\ logs = [r \in Rids |-> <<>>]

Init ==
  /\ apiKey \in {None, "sk-key"}
  /\ split = NoSplit /\ send = NoSend /\ chat = NoCompletion /\ mode = NoResolution
  /\ logs = [r \in Rids |-> <<>>]
  /\ nextId = 1
  /\ pc = [r \in Rids |-> "idle"]
  /\ raw = [r \in Rids |-> [enc |-> "none", obj |-> <<>>]]
  /\ body = [r \in Rids |-> <<>>]
  /\ loc = [r \in Rids |-> InitLocals]
  /\ queue = [r \in Rids |-> <<>>]
  /\ rows = [r \in Rids |-> <<>>]
  /\ ack = [r \in Rids |-> NoAck]
  /\ llmCalls = [r \in Rids |-> 0]
  /\ posts = [r \in Rids |-> <<>>]
  /\ persists = [r \in Rids |-> 0]

(***************************************************************************)
(* Table request_logs.                                                     *)
(***************************************************************************)
\* a RequestLog with the column defaults of models.py:38-60
RequestLog(request_id, prompt_slug, user_id, chat_id, params) ==
  [request_id |-> request_id, prompt_slug |-> prompt_slug, user_id |-> user_id,
   chat_id |-> chat_id, params |-> params,
   rendered_system |-> NoText, rendered_user |-> NoText,
   llm_ok |-> FALSE, llm_error |-> NoText, llm_response_text |-> NoText,
   telegram_ok |-> FALSE, telegram_error |-> NoText]

\* session.add(row); await session.commit()
Insert(tbl, row) == [tbl EXCEPT ![row.request_id] = Append(@, row)]

\* select(RequestLog).where(request_id == rid).order_by(id.desc()) ... first()
\* (api.py:107-110 and 268-269): the position of the latest row of rid among
\* the rows of rid, 0 when there is none
LatestRow(tbl, rid) == Len(tbl[rid])

\* GET /requests/{request_id}, api.py:104-113: the handler only reads the
\* table, so it is the function of the table that gives its answer
get_request_log(tbl, rid) ==
  IF LatestRow(tbl, rid) = 0
  THEN [request_id |-> rid, found |-> FALSE, llm_ok |-> FALSE]
  ELSE [request_id |-> rid, found |-> TRUE, llm_ok |-> tbl[rid][LatestRow(tbl, rid)].llm_ok]

\* upsert_final without the lookup of the existing row: always inserts
upsert_final_insert(tbl, rid, b, l) ==
  Insert(tbl,
         [RequestLog(rid, l.prompt_slug_for_log, UserIdOr0(b), b.chat_id, BodyParams(b))
            EXCEPT !.rendered_system = l.rendered_system,
                   !.rendered_user = l.rendered_user,
                   !.llm_ok = l.llm_ok,
                   !.llm_error = l.llm_error,
                   !.llm_response_text = l.llm_text,
                   !.telegram_ok = l.tg_ok,
                   !.telegram_error = l.tg_error])

\* upsert_final whose lookup has no where clause: it takes the first row of
\* the table, whichever request it belongs to
upsert_final_any_row(tbl, rid, b, l) ==
  LET owners == {q \in DOMAIN tbl : tbl[q] # <<>>}
      q == IF owners = {} THEN rid ELSE CHOOSE o \in owners : \A o2 \in owners : o <= o2
      fresh == RequestLog(rid, l.prompt_slug_for_log, UserIdOr0(b), b.chat_id, BodyParams(b))
      tbl1 == IF owners = {} THEN Insert(tbl, fresh) ELSE tbl
  IN [tbl1 EXCEPT ![q][1] =
        [@ EXCEPT !.prompt_slug = l.prompt_slug_for_log,
                  !.llm_ok = l.llm_ok,
                  !.llm_error = l.llm_error,
                  !.llm_response_text = l.llm_text,
                  !.telegram_ok = l.tg_ok,
                  !.telegram_error = l.tg_error]]

\* the final persist, api.py:266-291
upsert_final(tbl, rid, b, l) ==
  LET existing == LatestRow(tbl, rid)
      fresh == RequestLog(rid, l.prompt_slug_for_log, UserIdOr0(b), b.chat_id, BodyParams(b))
      tbl1 == IF existing = 0 THEN Insert(tbl, fresh) ELSE tbl
      id == IF existing = 0 THEN LatestRow(tbl1, rid) ELSE existing
  IN [tbl1 EXCEPT ![rid][id] =
        [request_id |-> tbl1[rid][id].request_id,
         prompt_slug |-> l.prompt_slug_for_log,
         user_id |-> UserIdOr0(b),
         chat_id |-> b.chat_id,
         params |-> BodyParams(b),
         rendered_system |-> l.rendered_system,
         rendered_user |-> l.rendered_user,
         llm_ok |-> l.llm_ok,
         llm_error |-> l.llm_error,
         llm_response_text |-> l.llm_text,
         telegram_ok |-> l.tg_ok,
         telegram_error |-> l.tg_error]]

(***************************************************************************)
(* POST /puzzlebot/ai, api.py:304-353.                                     *)
(***************************************************************************)
\* api.py:310-316: a request arrives, gets its request_id and is validated
Submit(p) ==
  /\ nextId <= MaxRequests
  /\ LET r == nextId
         v == model_validate(p)
     IN /\ pc[r] = "idle"
        /\ pc' = [pc EXCEPT ![r] = IF v.ok THEN "validated" ELSE "invalid"]
        /\ raw' = [raw EXCEPT ![r] = p]
        /\ body' = [body EXCEPT ![r] = v.body]
  /\ nextId' = nextId + 1
  /\ UNCHANGED <<calls, logs, apiKey, loc, queue, rows, ack, llmCalls, posts, persists>>

\* RecordInvalid with the labels of an accepted request instead of the marker
RecordInvalidAsPending(r) ==
  /\ pc[r] = "invalid"
  /\ rows' = Insert(rows, RequestLog(r, "__raw__", 0, 0, <<>>))
  /\ pc' = [pc EXCEPT ![r] = "recorded"]
  /\ UNCHANGED <<calls, logs, apiKey, nextId, raw, body, loc, queue, ack, llmCalls, posts, persists>>

\* api.py:316-333: the ValidationError branch stores its row
RecordInvalid(r) ==
  /\ pc[r] = "invalid"
  /\ rows' = Insert(rows,
        [RequestLog(r, "__invalid__", 0, 0, [validation_errors |-> "errors"])
           EXCEPT !.llm_error = <<"Validation error:", "errors">>])
  /\ pc' = [pc EXCEPT ![r] = "recorded"]
  /\ UNCHANGED <<calls, logs, apiKey, nextId, raw, body, loc, queue, ack, llmCalls, posts, persists>>

\* RespondInvalid answering with an error status instead of the acknowledgment
RespondInvalidWithError(r) ==
  /\ pc[r] = "recorded"
  /\ ack' = [ack EXCEPT ![r] =
        [status |-> "error", request_id |-> r, error |-> "validation_error"]]
  /\ pc' = [pc EXCEPT ![r] = "rejected"]
  /\ logs' = [logs EXCEPT ![r] = Append(@, IncomingLine(raw[r]))]
  /\ UNCHANGED <<calls, apiKey, nextId, raw, body, loc, queue, rows, llmCalls, posts, persists>>

\* api.py:334: the ValidationError branch answers; no task is scheduled; the
\* middleware logs the request (middleware.py:62-76)
RespondInvalid(r) ==
  /\ pc[r] = "recorded"
  /\ ack' = [ack EXCEPT ![r] =
        [status |-> "accepted", request_id |-> r, error |-> "validation_error"]]
  /\ pc' = [pc EXCEPT ![r] = "rejected"]
  /\ logs' = [logs EXCEPT ![r] = Append(@, IncomingLine(raw[r]))]
  /\ UNCHANGED <<calls, apiKey, nextId, raw, body, loc, queue, rows, llmCalls, posts, persists>>

\* api.py:337
PendingSlug(b) ==
  IF StrField(b, "prompt") # None THEN "__raw__"
  ELSE IF TruthyStr(StrField(b, "prompt_id")) THEN StrField(b, "prompt_id")
  ELSE "__missing__"

\* CreatePending without the commit of the row
CreatePendingUncommitted(r) ==
  /\ pc[r] = "validated"
  /\ pc' = [pc EXCEPT ![r] = "pending"]
  /\ UNCHANGED <<calls, logs, apiKey, nextId, raw, body, loc, queue, rows, ack, llmCalls, posts, persists>>

\* api.py:336-350: the pending row is committed
CreatePending(r) ==
  /\ pc[r] = "validated"
  /\ rows' = Insert(rows,
        RequestLog(r, PendingSlug(body[r]), UserIdOr0(body[r]), body[r].chat_id,
                   BodyParams(body[r])))
  /\ pc' = [pc EXCEPT ![r] = "pending"]
  /\ UNCHANGED <<calls, logs, apiKey, nextId, raw, body, loc, queue, ack, llmCalls, posts, persists>>

\* api.py:352-353: the background task is scheduled and the caller is answered;
\* the middleware logs the request (middleware.py:62-76)
RespondAccepted(r) ==
  /\ pc[r] = "pending"
  /\ ack' = [ack EXCEPT ![r] = [status |-> "accepted", request_id |-> r, error |-> None]]
  /\ pc' = [pc EXCEPT ![r] = "resolve"]
  /\ logs' = [logs EXCEPT ![r] = Append(@, IncomingLine(raw[r]))]
  /\ UNCHANGED <<calls, apiKey, nextId, raw, body, loc, queue, rows, llmCalls, posts, persists>>

(***************************************************************************)
(* _process_request, api.py:121-301.  The synchronous code between two     *)
(* awaits runs as part of the step that reaches it: the Line... operators  *)
(* give the next suspension point, the locals and the chunks to post.      *)
(***************************************************************************)
Ctl(p, l, q) == [pc |-> p, l |-> l, q |-> q]

\* Unhandled without the handler: the exception leaves _process_request and
\* the task ends before the final persist
UnhandledEscapes(l, msg) == Ctl("done", l, <<>>)

\* Unhandled that records nothing: the final persist follows with llm_error
\* as it was
UnhandledRecordsNothing(l, msg) == Ctl("persist", l, <<>>)

\* except Exception (api.py:261-264), then on to the final persist
Unhandled(l, msg) ==
  Ctl("persist",
      [l EXCEPT !.llm_error = IF @ = NoText THEN <<"Unhandled error:">> \o msg ELSE @],
      <<>>)

\* parameters of send_message, telegram.py:71-79
SendMessageParams == {"client", "bot_token", "chat_id", "text", "parse_mode",
                      "disable_web_page_preview"}
\* arguments of the call at api.py:226-233
TextCallArgs == {"client", "bot_token", "chat_id", "text", "parse_mode", "split"}
\* arguments of the calls at api.py:240-246 and 252-258
NoticeCallArgs == {"client", "bot_token", "chat_id", "text", "parse_mode"}

\* getattr(e, "sent_parts", 0), api.py:238
SentParts(exc) == IF "sent_parts" \in DOMAIN exc THEN exc.sent_parts ELSE 0

\* Returned with tg_ok set at every call site, the notices included
ReturnedMarksDelivered(site, l) == Ctl("persist", [l EXCEPT !.tg_ok = TRUE], <<>>)

\* send_message returned normally to its call site
Returned(site, l) ==
  IF site = "send_text" THEN Ctl("persist", [l EXCEPT !.tg_ok = TRUE], <<>>)  \* api.py:234
  ELSE Ctl("persist", l, <<>>)

\* a call of send_message up to its first post, telegram.py:71-90; a call that
\* does not bind to the signature raises TypeError, which no handler but
\* api.py:261 catches
StartSend(site, args, text, l) ==
  IF ~(args \subseteq SendMessageParams)
  THEN Unhandled(l, <<"send_message() got an unexpected keyword argument">>)
  ELSE LET chunks == _split_text(text, TELEGRAM_SAFE_LIMIT)
       IN IF chunks = <<>> THEN Returned(site, l) ELSE Ctl(site, l, chunks)

\* send_message raised TelegramError exc to its call site
Raised(site, l, exc) ==
  IF site = "send_text"
  THEN LET l1 == [l EXCEPT !.tg_error = exc.msg]                      \* api.py:235-236
       IN IF SentParts(exc) = 0                                        \* api.py:238
          THEN StartSend("send_notice_tg", NoticeCallArgs, FALLBACK_ERROR_TEXT, l1)
          ELSE Ctl("persist", l1, <<>>)
  ELSE Ctl("persist", l, <<>>)                                         \* api.py:247-248, 259-260

\* Line220 that sends the fallback notice after a delivered document
Line220NoticeAfterDocument(l, b) ==
  IF ~l.tg_ok THEN StartSend("send_text", TextCallArgs, l.llm_text, l)
  ELSE StartSend("send_notice_llm", NoticeCallArgs, FALLBACK_ERROR_TEXT, l)

\* api.py:220-233
Line220(l, b) ==
  IF ~l.tg_ok
  THEN LET l1 == [l EXCEPT !.tg_error =
                     IF l.pdf_error # NoText /\ @ = NoText THEN l.pdf_error ELSE @]
       IN StartSend("send_text", TextCallArgs, l1.llm_text, l1)
  ELSE Ctl("persist", l, <<>>)

\* api.py:202-203 and 249-258
Line202(l, b) ==
  IF l.llm_ok /\ Truthy(l.llm_text)
  THEN IF BodySendPdf(b) /\ l.pdf_bytes THEN Ctl("doc", l, <<>>) ELSE Line220(l, b)
  ELSE IF ~l.llm_ok
  THEN StartSend("send_notice_llm", NoticeCallArgs, FALLBACK_ERROR_TEXT, l)
  ELSE Ctl("persist", l, <<>>)

\* api.py:188-191
Line188(l, b) ==
  IF l.llm_ok /\ Truthy(l.llm_text) /\ BodySendPdf(b) THEN Ctl("pdf", l, <<>>)
  ELSE Line202(l, b)

\* Line168 without the test of the API key: the LLM is called with no key
Line168CallsWithoutKey(l, b, key) ==
  IF l.llm_error # NoText THEN Line188(l, b) ELSE Ctl("llm", l, <<>>)

\* Line168 without the test of llm_error
Line168IgnoresError(l, b, key) ==
  IF ~TruthyStr(key)
  THEN Line188([l EXCEPT !.llm_error = <<"LLM_API_KEY is not configured">>], b)
  ELSE Ctl("llm", l, <<>>)

\* api.py:168-172
Line168(l, b, key) ==
  IF l.llm_error # NoText THEN Line188(l, b)
  ELSE IF ~TruthyStr(key)
  THEN Line188([l EXCEPT !.llm_error = <<"LLM_API_KEY is not configured">>], b)
  ELSE Ctl("llm", l, <<>>)

\* _get_prompt_by_slug, api.py:27-33
_get_prompt_by_slug(prompt_id) ==
  IF prompt_id \in DOMAIN PromptStore
  THEN [found |-> TRUE, prompt |-> PromptStore[prompt_id], msg |-> <<>>]
  ELSE [found |-> FALSE, prompt |-> <<>>,
        msg |-> <<"404:", "Prompt", prompt_id, "not found">>]

\* api.py:137-166: the locals after prompt resolution; raised is the message
\* of the exception that left the block, if one did
Resolve(l, b) ==
  IF StrField(b, "prompt") # None
  THEN [raised |-> <<>>,
        l |-> [l EXCEPT !.rendered_system =
                           IF StrField(b, "system") = None THEN NoText
                           ELSE <<StrField(b, "system")>>,
                        !.rendered_user = <<b.prompt>>]]
  ELSE IF ~TruthyStr(StrField(b, "prompt_id"))
  THEN [raised |-> <<>>,
        l |-> [l EXCEPT !.llm_error =
                           <<"Either 'prompt' or 'prompt_id' must be provided">>]]
  ELSE LET l1 == [l EXCEPT !.prompt_slug_for_log = b.prompt_id]
           got == _get_prompt_by_slug(b.prompt_id)
       IN IF ~got.found THEN [raised |-> got.msg, l |-> l1]
          ELSE LET sys == render_template(got.prompt.system_template, BodyParams(b))
                   usr == render_template(got.prompt.user_template, BodyParams(b))
               IN IF ~sys.ok
                  THEN [raised |-> <<>>,
                        l |-> [l1 EXCEPT !.llm_error = <<"Prompt render error:">>]]
                  ELSE IF ~usr.ok
                  THEN [raised |-> <<>>,
                        l |-> [l1 EXCEPT !.rendered_system = sys.text,
                                         !.llm_error = <<"Prompt render error:">>]]
                  ELSE [raised |-> <<>>,
                        l |-> [l1 EXCEPT !.rendered_system = sys.text,
                                         !.rendered_user = usr.text]]

\* moves request r to the control point c
Goto(r, c) ==
  /\ pc' = [pc EXCEPT ![r] = c.pc]
  /\ loc' = [loc EXCEPT ![r] = c.l]
  /\ queue' = [queue EXCEPT ![r] = c.q]

\* api.py:127-172: the background task starts and resolves the prompt
ResolvePrompt(r) ==
  /\ pc[r] = "resolve"
  /\ LET res == Resolve(InitLocals, body[r])
     IN Goto(r, IF res.raised # <<>> THEN Unhandled(res.l, res.raised)
                ELSE Line168(res.l, body[r], apiKey))
  /\ UNCHANGED <<calls, logs, apiKey, nextId, raw, body, rows, ack, llmCalls, posts, persists>>

\* what a call of openai_chat_completion (llm.py:46-107) hands its caller: an
\* LLMResult, an LLMError, or the error of r.json() at llm.py:102, which is
\* raised outside the try block and is not an LLMError
LLMOutcomes ==
  {[kind |-> "ok", text |-> <<"Hello!">>, msg |-> <<>>],
   [kind |-> "ok", text |-> <<>>, msg |-> <<>>],
   [kind |-> "LLMError", text |-> NoText, msg |-> <<"LLM request failed">>],
   [kind |-> "JSONDecodeError", text |-> NoText, msg |-> <<"Expecting value">>]}

\* api.py:173-186: the LLM call and what follows it up to the next await
CallLLM(r) ==
  /\ pc[r] = "llm"
  /\ \E out \in LLMOutcomes :
        Goto(r, CASE out.kind = "ok" ->
                       Line188([loc[r] EXCEPT !.llm_text = out.text, !.llm_ok = TRUE], body[r])
                  [] out.kind = "LLMError" ->
                       Line188([loc[r] EXCEPT !.llm_error = out.msg], body[r])
                  [] OTHER -> Unhandled(loc[r], out.msg))
  /\ llmCalls' = [llmCalls EXCEPT ![r] = @ + 1]
  /\ UNCHANGED <<calls, logs, apiKey, nextId, raw, body, rows, ack, posts, persists>>

\* api.py:191-200: build_daily_mind_pdf (pdf.py:335-544) returns the bytes of
\* the document or raises
BuildPdf(r) ==
  /\ pc[r] = "pdf"
  /\ \E built \in BOOLEAN :
        Goto(r, Line202(IF built THEN [loc[r] EXCEPT !.pdf_bytes = TRUE]
                        ELSE [loc[r] EXCEPT !.pdf_error = <<"PDF generation error:">>],
                        body[r]))
  /\ UNCHANGED <<calls, logs, apiKey, nextId, raw, body, rows, ack, llmCalls, posts, persists>>

\* send_document: one upload, which succeeds or fails with a TelegramError
send_document(delivered) ==
  IF delivered THEN [raised |-> FALSE, msg |-> <<>>]
  ELSE [raised |-> TRUE, msg |-> <<"Telegram error">>]

\* api.py:203-218: the document is sent
SendDocument(r) ==
  /\ pc[r] = "doc"
  /\ \E delivered \in BOOLEAN :
        LET res == send_document(delivered)
        IN /\ posts' = [posts EXCEPT ![r] = Append(@, [kind |-> "document", ok |-> delivered])]
           /\ Goto(r, Line220(IF res.raised THEN [loc[r] EXCEPT !.tg_error = res.msg]
                              ELSE [loc[r] EXCEPT !.tg_ok = TRUE],
                              body[r]))
  /\ UNCHANGED <<calls, logs, apiKey, nextId, raw, body, rows, ack, llmCalls, persists>>

\* the three places _process_request awaits send_message
SendSites == {"send_text", "send_notice_tg", "send_notice_llm"}

\* telegram.py:87-100: send_message posts its next chunk; a transport error
\* or a status >= 400 raises TelegramError and ends the loop
PostChunk(r) ==
  /\ pc[r] \in SendSites
  /\ \E delivered \in BOOLEAN :
        /\ posts' = [posts EXCEPT ![r] =
              Append(@, [kind |-> IF pc[r] = "send_text" THEN "text" ELSE "notice",
                         ok |-> delivered])]
        /\ IF ~delivered
           THEN Goto(r, Raised(pc[r], loc[r], [type |-> "TelegramError",
                                               msg |-> <<"Telegram error">>]))
           ELSE IF Tail(queue[r]) = <<>>
           THEN Goto(r, Returned(pc[r], loc[r]))
           ELSE Goto(r, Ctl(pc[r], loc[r], Tail(queue[r])))
  /\ UNCHANGED <<calls, logs, apiKey, nextId, raw, body, rows, ack, llmCalls, persists>>

\* api.py:266-301: the final persist and the completion log line
Persist(r) ==
  /\ pc[r] = "persist"
  /\ rows' = upsert_final(rows, r, body[r], loc[r])
  /\ persists' = [persists EXCEPT ![r] = @ + 1]
  /\ pc' = [pc EXCEPT ![r] = "done"]
  /\ logs' = [logs EXCEPT ![r] = Append(@, DoneLine(r, loc[r]))]
  /\ UNCHANGED <<calls, apiKey, nextId, raw, body, loc, queue, ack, llmCalls, posts>>

Next ==
  \/ \E p \in Payloads : Submit(p)
  \/ \E r \in Rids : RecordInvalid(r)
  \/ \E r \in Rids : RespondInvalid(r)
  \/ \E r \in Rids : CreatePending(r)
  \/ \E r \in Rids : RespondAccepted(r)
  \/ \E r \in Rids : ResolvePrompt(r)
  \/ \E r \in Rids : CallLLM(r)
  \/ \E r \in Rids : BuildPdf(r)
  \/ \E r \in Rids : SendDocument(r)
  \/ \E r \in Rids : PostChunk(r)
  \/ \E r \in Rids : Persist(r)

Spec == Init /\ [][Next]_vars

\* the event loop runs every handler and every scheduled background task, and
\* every outbound call returns or fails
Step(r) ==
  \/ RecordInvalid(r) \/ RespondInvalid(r) \/ CreatePending(r) \/ RespondAccepted(r)
  \/ ResolvePrompt(r) \/ CallLLM(r) \/ BuildPdf(r) \/ SendDocument(r) \/ PostChunk(r)
  \/ Persist(r)

\* the event loop never stops while a handler or a task can take a step
FairSpec == Spec /\ WF_vars(\E r \in Rids : Step(r))

(***************************************************************************)
(* Properties.                                                             *)
(***************************************************************************)
\* request r has arrived and its body passed validation
Valid(r) == pc[r] # "idle" /\ model_validate(raw[r]).ok
\* request r has arrived and its body failed validation
Invalid(r) == pc[r] # "idle" /\ ~model_validate(raw[r]).ok
\* the latest row of request r, as GET /requests/{request_id} selects it
Row(r) == rows[r][LatestRow(rows, r)]
\* the posts of request r of one kind
PostsOfKind(r, k) == {i \in DOMAIN posts[r] : posts[r][i].kind = k}

ErrMissingPrompt == <<"Either 'prompt' or 'prompt_id' must be provided">>

\* C1: the final persist never runs twice for a request, a finished pipeline
\* has run it once, and under fair scheduling every request that passed
\* validation ends finished with its one final persist, whichever branch the
\* pipeline took (an unexpected exception included).
C1_FinalPersistExactlyOnce ==
  /\ [](\A r \in Rids : persists[r] <= 1 /\ (pc[r] = "done" => persists[r] = 1))
  /\ <>[](\A r \in Rids : Valid(r) => pc[r] = "done" /\ persists[r] = 1)

\* a pipeline that left through the handler of unexpected exceptions has
\* finished with its one final persist
C1_Witness ==
  \E r \in Rids :
    /\ pc[r] = "done" /\ persists[r] = 1
    /\ Head(Row(r).llm_error) = "Unhandled error:"

\* C2: the table holds at most one row per request_id, and exactly one for
\* every request_id handed to a caller; the final persist updates the pending
\* row in place, and running it twice for one request_id leaves one row that
\* carries the fields of the second run and leaves every other request's rows
\* alone.
C2_OneRowPerRequest ==
  \A r \in Rids :
    /\ Len(rows[r]) <= 1
    /\ (ack[r].status = "accepted" => Len(rows[r]) = 1)
    /\ (pc[r] = "done" => Len(rows[r]) = 1 /\ Row(r).request_id = r)
    /\ (Valid(r) =>
          LET once == upsert_final(rows, r, body[r], InitLocals)
              twice == upsert_final(once, r, body[r], loc[r])
          IN /\ Len(once[r]) = 1
             /\ Len(twice[r]) = 1
             /\ twice[r][1].request_id = r
             /\ twice[r][1].llm_ok = loc[r].llm_ok
             /\ twice[r][1].llm_error = loc[r].llm_error
             /\ twice[r][1].llm_response_text = loc[r].llm_text
             /\ twice[r][1].telegram_ok = loc[r].tg_ok
             /\ twice[r][1].telegram_error = loc[r].tg_error
             /\ twice[r][1].prompt_slug = loc[r].prompt_slug_for_log
             /\ \A q \in Rids \ {r} : twice[q] = rows[q])

\* two requests have both finished, one with a successful and one with a
\* failed LLM stage, each with its single row
C2_Witness ==
  \E r1, r2 \in Rids :
    /\ r1 # r2 /\ pc[r1] = "done" /\ pc[r2] = "done"
    /\ Len(rows[r1]) = 1 /\ Len(rows[r2]) = 1
    /\ Row(r1).llm_ok /\ ~Row(r2).llm_ok

\* the row as CreatePending writes it
PendingShape(row) ==
  /\ ~row.llm_ok /\ ~row.telegram_ok
  /\ row.llm_error = NoText /\ row.telegram_error = NoText
  /\ row.llm_response_text = NoText

\* where a validated request stands between the commit of its pending row and
\* its final persist
InFlight == {"pending", "resolve", "llm", "pdf", "doc", "persist"} \cup SendSites

\* C3: once the caller holds a request_id, the outcome query for it finds a
\* row; no LLM call and no post to the messaging API is made for a request
\* without a row; and from the commit of the pending row until the final
\* persist that row is the pending one (llm_ok and telegram_ok false, no error).
C3_PendingRowBeforeAck ==
  \A r \in Rids :
    /\ (ack[r].status # "none" => get_request_log(rows, ack[r].request_id).found)
    /\ (llmCalls[r] > 0 \/ posts[r] # <<>> => get_request_log(rows, r).found)
    /\ (Valid(r) /\ pc[r] \in InFlight =>
          Len(rows[r]) = 1 /\ PendingShape(rows[r][1]))

\* the caller holds the id while the pipeline is about to call the LLM, and
\* the query answers with the pending row
C3_Witness ==
  \E r \in Rids :
    /\ ack[r].status = "accepted" /\ pc[r] = "llm"
    /\ get_request_log(rows, r).found /\ ~get_request_log(rows, r).llm_ok

\* C4: a request whose body fails validation never leaves the validation
\* branch of submit: it gets exactly one row, with llm_ok and telegram_ok false
\* and the marker __invalid__ as prompt_slug, its caller gets the accepted
\* acknowledgment with the request_id, and no LLM call, no post to the
\* messaging API and no final persist is ever made for it.
C4_InvalidPayloadRecorded ==
  \A r \in Rids :
    Invalid(r) =>
      /\ pc[r] \in {"invalid", "recorded", "rejected"}
      /\ llmCalls[r] = 0 /\ posts[r] = <<>> /\ persists[r] = 0
      /\ Len(rows[r]) = (IF pc[r] = "invalid" THEN 0 ELSE 1)
      /\ (pc[r] # "invalid" =>
            /\ Row(r).request_id = r
            /\ Row(r).prompt_slug = "__invalid__"
            /\ ~Row(r).llm_ok /\ ~Row(r).telegram_ok)
      /\ ack[r].status = (IF pc[r] = "rejected" THEN "accepted" ELSE "none")
      /\ (pc[r] = "rejected" => ack[r].request_id = r)

\* a body that is not JSON has been answered
C4_Witness ==
  \E r \in Rids :
    /\ Invalid(r) /\ raw[r].enc = "garbage" /\ pc[r] = "rejected"
    /\ ack[r].error = "validation_error" /\ Row(r).prompt_slug = "__invalid__"

\* C5: the caller of submit sees nothing but the accepted acknowledgment with
\* its request_id; the acknowledgment of a validated request carries no error,
\* whatever the pipeline does later, so a failed stage shows in the row only;
\* the caller holds the acknowledgment for as long as the background task runs
\* and after it; and under fair scheduling every request that arrived, valid
\* or not, ends acknowledged.
C5_CallerOnlySeesAccepted ==
  /\ [](\A r \in Rids :
          /\ ack[r].status \in {"none", "accepted"}
          /\ (ack[r].status = "accepted" =>
                /\ ack[r].request_id = r
                /\ ack[r].error = (IF Valid(r) THEN None ELSE "validation_error"))
          /\ (pc[r] \in (InFlight \ {"pending"}) \cup {"rejected", "done"} =>
                ack[r].status = "accepted"))
  /\ <>[](\A r \in Rids : pc[r] # "idle" => ack[r].status = "accepted")

\* a pipeline has finished with a failed LLM stage and a failed notice, and its
\* caller holds nothing but the accepted acknowledgment
C5_Witness ==
  \E r \in Rids :
    /\ pc[r] = "done" /\ ~Row(r).llm_ok /\ ~Row(r).telegram_ok
    /\ \E i \in DOMAIN posts[r] : ~posts[r][i].ok
    /\ ack[r] = [status |-> "accepted", request_id |-> r, error |-> None]

\* the body of request r names neither a prompt nor a prompt_id
MissingSpec(r) ==
  /\ Valid(r)
  /\ StrField(body[r], "prompt") = None
  /\ ~TruthyStr(StrField(body[r], "prompt_id"))

\* C6: for a request whose body has neither prompt nor prompt_id the LLM is
\* never called, the final row has llm_ok false with the missing-prompt error,
\* and under fair scheduling the request ends finished with that row persisted.
C6_MissingPromptSpec ==
  /\ [](\A r \in Rids :
          MissingSpec(r) =>
            /\ llmCalls[r] = 0
            /\ (pc[r] = "done" =>
                  /\ persists[r] = 1
                  /\ ~Row(r).llm_ok
                  /\ Row(r).llm_error = ErrMissingPrompt))
  /\ <>[](\A r \in Rids : MissingSpec(r) => pc[r] = "done")

\* a request without prompt and prompt_id has finished while an API key is
\* configured
C6_Witness ==
  \E r \in Rids :
    /\ MissingSpec(r) /\ "prompt_id" \notin DOMAIN body[r]
    /\ TruthyStr(apiKey)
    /\ pc[r] = "done" /\ Row(r).llm_error = ErrMissingPrompt

\* the body of request r names a prompt_id that is not in the prompt store
UnknownSlug(r) ==
  /\ Valid(r)
  /\ StrField(body[r], "prompt") = None
  /\ TruthyStr(StrField(body[r], "prompt_id"))
  /\ body[r].prompt_id \notin DOMAIN PromptStore

\* C7: for a request whose prompt_id is not in the prompt store the LLM is
\* never called, a fallback notice has been posted by the time the final
\* persist runs, and the final row has llm_ok false with an error that mentions
\* the slug.
C7_UnknownSlugNotified ==
  \A r \in Rids :
    UnknownSlug(r) =>
      /\ llmCalls[r] = 0
      /\ (pc[r] \in {"persist", "done"} => PostsOfKind(r, "notice") # {})
      /\ (pc[r] = "done" =>
            /\ ~Row(r).llm_ok
            /\ body[r].prompt_id \in Range(Row(r).llm_error))

\* the failures of the LLM stage that api.py:150-186 records itself
StageErrors ==
  {ErrMissingPrompt, <<"Prompt render error:">>, <<"LLM_API_KEY is not configured">>,
   <<"LLM request failed">>}

\* C8: when the LLM stage failed with a missing prompt spec, a render error, a
\* missing API key or an LLMError, the pipeline has posted exactly one message,
\* the fallback notice, by the time it persists, and llm_ok and telegram_ok are
\* false in its locals and in the final row, whether the notice was delivered
\* or not.
C8_FallbackNoticeOnLLMFailure ==
  \A r \in Rids :
    Valid(r) /\ pc[r] \in {"persist", "done"} /\ loc[r].llm_error \in StageErrors =>
      /\ Len(posts[r]) = 1
      /\ posts[r][1].kind = "notice"
      /\ ~loc[r].llm_ok /\ ~loc[r].tg_ok
      /\ (pc[r] = "done" =>
            /\ ~Row(r).llm_ok /\ ~Row(r).telegram_ok
            /\ Row(r).llm_error = loc[r].llm_error)

\* two pipelines with a failed LLM stage have finished, one whose notice was
\* delivered and one whose notice failed
C8_Witness ==
  \E r1, r2 \in Rids :
    /\ pc[r1] = "done" /\ loc[r1].llm_error = <<"LLM request failed">>
    /\ posts[r1] = <<[kind |-> "notice", ok |-> FALSE]>>
    /\ pc[r2] = "done" /\ loc[r2].llm_error \in StageErrors
    /\ posts[r2] = <<[kind |-> "notice", ok |-> TRUE]>>

\* C9: for a request with a literal prompt whose LLM call returned a non-empty
\* text and whose posts were all accepted, the final row has llm_ok and
\* telegram_ok true and the LLM text as llm_response_text, and no fallback
\* notice was posted.
C9_LiteralPromptDelivered ==
  \A r \in Rids :
    /\ Valid(r) /\ pc[r] = "done"
    /\ StrField(body[r], "prompt") # None
    /\ loc[r].llm_ok /\ Truthy(loc[r].llm_text)
    /\ \A i \in DOMAIN posts[r] : posts[r][i].ok
    => /\ Row(r).llm_ok /\ Row(r).telegram_ok
       /\ Row(r).llm_response_text = loc[r].llm_text
       /\ PostsOfKind(r, "notice") = {}

\* the document of request r could not be built or could not be delivered
DocumentFailed(r) ==
  \/ loc[r].pdf_error # NoText
  \/ \E i \in PostsOfKind(r, "document") : ~posts[r][i].ok

\* C10: when the LLM succeeded, a document was requested and its rendering or
\* its delivery failed, the pipeline posts the LLM text as a message, and when
\* those posts are accepted the final row has telegram_ok true and keeps the
\* document error as telegram_error.
C10_DocumentFallsBackToText ==
  \A r \in Rids :
    /\ Valid(r) /\ pc[r] = "done"
    /\ loc[r].llm_ok /\ Truthy(loc[r].llm_text)
    /\ BodySendPdf(body[r]) /\ DocumentFailed(r)
    => /\ PostsOfKind(r, "text") # {}
       /\ ((\A i \in PostsOfKind(r, "text") : posts[r][i].ok) =>
             Row(r).telegram_ok /\ Row(r).telegram_error # NoText)

\* the text of request r was handed to plain-text delivery and nothing of it
\* reached the chat
TextDeliveryFailed(r) ==
  /\ Valid(r) /\ pc[r] \in {"persist", "done"}
  /\ loc[r].llm_ok /\ Truthy(loc[r].llm_text) /\ ~loc[r].tg_ok
  /\ \A i \in PostsOfKind(r, "text") : ~posts[r][i].ok

\* C11: when the delivery of the LLM text as a message failed with no part
\* sent, the pipeline has posted the fallback notice exactly once by the time
\* it persists, whether that post was accepted or not, and the final row has
\* llm_ok true and telegram_ok false.
C11_OneNoticeAfterFailedText ==
  \A r \in Rids :
    TextDeliveryFailed(r) =>
      /\ Cardinality(PostsOfKind(r, "notice")) = 1
      /\ (pc[r] = "done" => Row(r).llm_ok /\ ~Row(r).telegram_ok)

(***************************************************************************)
(* send_message called on its own, telegram.py:71-100: one call with       *)
(* arguments that bind to its signature, and the posts it makes.           *)
(***************************************************************************)
\* the variables of the request pipeline
pipeline == <<apiKey, nextId, pc, raw, body, loc, queue, rows, ack, llmCalls, posts,
              persists, logs>>

\* number of paragraphs in a text handed to send_message
MaxUnits == 3

\* n times the character c
Rep(c, n) == [i \in 1..n |-> c]

\* paragraphs: one of which two fit into a message and three do not, one that
\* fills a message, and one that is longer than a message
Units == {Rep("a", 1500), Rep("b", TELEGRAM_SAFE_LIMIT), Rep("c", TELEGRAM_SAFE_LIMIT + 100)}

\* "\n\n".join(us)
RECURSIVE JoinUnits(_)
JoinUnits(us) ==
  IF Len(us) = 1 THEN us[1] ELSE us[1] \o <<NL, NL>> \o JoinUnits(Tail(us))

\* a text of spaces only, one character longer than a message
BlankText == Rep(" ", TELEGRAM_SAFE_LIMIT + 1)

\* the texts send_message is called with
SendTexts ==
  {JoinUnits(us) : us \in UNION {[1..n -> Units] : n \in 1..MaxUnits}} \cup {BlankText}

\* how a post to the messaging API ends, telegram.py:95-100: accepted, an
\* httpx.HTTPError, or a status >= 400
PostOutcomes == {"accepted", "HTTPError", "status"}

\* telegram.py:97-100: the TelegramError of a failed post
TelegramError(outcome) ==
  [type |-> "TelegramError",
   msg |-> IF outcome = "HTTPError" THEN <<"Telegram request failed:">>
           ELSE <<"Telegram error">>]

SendInit ==
  /\ apiKey = None /\ NoRequests
  /\ split = NoSplit /\ send = NoSend /\ chat = NoCompletion /\ mode = NoResolution

\* telegram.py:80-87: the call splits its text and enters the loop; with no
\* chunk the loop body never runs and the call returns
SendMessage(t) ==
  /\ send.state = "idle"
  /\ LET chunks == _split_text(t, TELEGRAM_SAFE_LIMIT)
     IN send' = [send EXCEPT !.text = t, !.chunks = chunks,
                             !.state = IF chunks = <<>> THEN "returned" ELSE "sending"]
  /\ UNCHANGED <<pipeline, split, chat, mode>>

\* PostPart without the raise: a failed post is skipped and the loop goes on
PostPartKeepsGoing ==
  /\ send.state = "sending"
  /\ \E outcome \in PostOutcomes :
        LET part == Len(send.posted) + 1
        IN send' = [send EXCEPT
                      !.posted = Append(@, [part |-> part, ok |-> outcome = "accepted"]),
                      !.state = IF part = Len(send.chunks) THEN "returned" ELSE "sending"]
  /\ UNCHANGED <<pipeline, split, chat, mode>>

\* telegram.py:87-100: one turn of the loop posts the next chunk and waits for
\* the answer; a failed post raises TelegramError out of the loop
PostPart ==
  /\ send.state = "sending"
  /\ \E outcome \in PostOutcomes :
        LET part == Len(send.posted) + 1
        IN send' = [send EXCEPT
                      !.posted = Append(@, [part |-> part, ok |-> outcome = "accepted"]),
                      !.state = IF outcome # "accepted" THEN "raised"
                                ELSE IF part = Len(send.chunks) THEN "returned"
                                ELSE "sending",
                      !.exc = IF outcome # "accepted" THEN TelegramError(outcome) ELSE @]
  /\ UNCHANGED <<pipeline, split, chat, mode>>

SendNext ==
  \/ \E t \in SendTexts : SendMessage(t)
  \/ PostPart

SendSpec == SendInit /\ [][SendNext]_vars

\* C12: send_message posts its chunks one at a time in their order: the i-th
\* post carries the i-th chunk, a chunk is posted only after every chunk before
\* it was accepted, and after the first failed post the call has raised and
\* posts nothing more; a call that returned has posted every chunk once.
C12_ChunksInOrderStopAtFailure ==
  /\ Len(send.posted) <= Len(send.chunks)
  /\ \A i \in DOMAIN send.posted :
        /\ send.posted[i].part = i
        /\ (i < Len(send.posted) => send.posted[i].ok)
        /\ (~send.posted[i].ok => i = Len(send.posted) /\ send.state = "raised")
  /\ (send.state = "raised" =>
        send.posted # <<>> /\ ~send.posted[Len(send.posted)].ok)
  /\ (send.state = "returned" =>
        /\ Len(send.posted) = Len(send.chunks)
        /\ \A i \in DOMAIN send.posted : send.posted[i].ok)

\* a call with four chunks has raised at its second post, with two chunks
\* never posted
C12_Witness ==
  /\ send.state = "raised"
  /\ Len(send.chunks) = 4 /\ Len(send.posted) = 2
  /\ send.posted[1].ok /\ ~send.posted[2].ok

\* C13: when send_message raises at its k-th post, the error it raises carries
\* sent_parts = k - 1, the number of chunks delivered before the failure, so
\* that the handler of the text delivery (api.py:235-248) goes on to the
\* fallback notice when nothing was delivered and to the final persist, with
\* no notice, when at least one chunk was.
C13_ErrorReportsSentParts ==
  send.state = "raised" =>
    LET delivered == Cardinality({i \in DOMAIN send.posted : send.posted[i].ok})
        handled == Raised("send_text", InitLocals, send.exc)
    IN /\ SentParts(send.exc) = Len(send.posted) - 1
       /\ SentParts(send.exc) = delivered
       /\ (delivered = 0 => handled.pc = "send_notice_tg")
       /\ (delivered > 0 => handled.pc = "persist")

(***************************************************************************)
(* openai_chat_completion called on its own, llm.py:46-107: one call, the  *)
(* HTTP requests it issues and how it ends.                                *)
(***************************************************************************)
\* _FALLBACK_MAX_COMPLETION_TOKENS_FOR_UNLIMITED, llm.py:9
FALLBACK_MAX_COMPLETION_TOKENS_FOR_UNLIMITED == 8192

\* the argument max_tokens: int | None, as <<>> for None and <<n>> for n
MaxTokensArgs == {<<>>, <<0>>, <<512>>}
\* the argument system: str | None
SystemArgs == {NoText, <<"You are an astrologer">>}

\* max_tokens is not None and max_tokens > 0, llm.py:72 and 85
HasLimit(max_tokens) == max_tokens # <<>> /\ max_tokens[1] > 0

\* the two field names; neither is a substring of the other
BothNames == {"max_tokens", "max_completion_tokens"}

\* what client.post gives, llm.py:75 and 88: an httpx.HTTPError, or a response
\* with its status, the field names its text mentions within the first 5000
\* characters (head) and only after them (tail), and what its body holds
HTTPError == [kind |-> "HTTPError", status |-> 0, head |-> {}, tail |-> {}, body |-> "none"]
Response(status, head, tail, b) ==
  [kind |-> "response", status |-> status, head |-> head, tail |-> tail, body |-> b]

LLMResponses ==
  {HTTPError,
   Response(200, {}, {}, "content"),
   Response(200, {}, {}, "not_json"),
   Response(200, {}, {}, "no_choices"),
   Response(400, BothNames, {}, "error"),
   Response(400, {"max_tokens"}, {}, "error"),
   Response(400, {}, BothNames, "error"),
   Response(400, {}, {}, "error"),
   Response(500, {}, {}, "error")}

\* _needs_max_completion_tokens, llm.py:34-43
_needs_max_completion_tokens(r) ==
  IF r.status # 400 THEN FALSE
  ELSE LET snippet == r.head                      \* (r.text or "")[:5000]
       IN "max_completion_tokens" \in snippet /\ "max_tokens" \in snippet

\* llm.py:62-73: the payload of the first request; limit holds the one
\* token-limit field of the payload, if it has one
Payload(system, max_tokens) ==
  [model |-> "model",
   messages |-> (IF Truthy(system) THEN <<"system">> ELSE <<>>) \o <<"user">>,
   limit |-> IF HasLimit(max_tokens) THEN [max_tokens |-> max_tokens[1]] ELSE <<>>]

\* llm.py:81-86: the payload of the retry
Payload2(payload, max_tokens) ==
  [payload EXCEPT !.limit =
     [max_completion_tokens |->
        IF HasLimit(max_tokens) THEN max_tokens[1]
        ELSE FALLBACK_MAX_COMPLETION_TOKENS_FOR_UNLIMITED]]

\* llm.py:92-107: what the call does with its final response
Finish(c, r) ==
  IF r.status >= 400 THEN [c EXCEPT !.state = "raised", !.raised = "LLMError"]
  ELSE IF r.body = "not_json"                                     \* r.json(), llm.py:102
  THEN [c EXCEPT !.state = "raised", !.raised = "JSONDecodeError"]
  ELSE IF r.body = "no_choices"                                   \* llm.py:103-106
  THEN [c EXCEPT !.state = "raised", !.raised = "LLMError"]
  ELSE [c EXCEPT !.state = "returned", !.text = <<"Hello!">>]

ChatInit ==
  /\ apiKey = None /\ NoRequests
  /\ split = NoSplit /\ send = NoSend /\ chat = NoCompletion /\ mode = NoResolution

\* llm.py:56-75: the call builds its payload and issues the first request
Complete(system, max_tokens) ==
  /\ chat.state = "idle"
  /\ chat' = [chat EXCEPT !.state = "first", !.max_tokens = max_tokens,
                          !.requests = <<Payload(system, max_tokens)>>]
  /\ UNCHANGED <<pipeline, split, send, mode>>

\* FirstAnswer that retries on every status 400
FirstAnswerRetriesOn400(r) ==
  /\ chat.state = "first"
  /\ LET c == [chat EXCEPT !.responses = Append(@, r)]
     IN chat' =
          IF r.kind = "HTTPError" THEN [c EXCEPT !.state = "raised", !.raised = "LLMError"]
          ELSE IF r.status = 400
          THEN [c EXCEPT !.state = "retry",
                         !.requests = Append(@, Payload2(chat.requests[1], chat.max_tokens))]
          ELSE Finish(c, r)
  /\ UNCHANGED <<pipeline, split, send, mode>>

\* llm.py:74-107: the first request is answered
FirstAnswer(r) ==
  /\ chat.state = "first"
  /\ LET c == [chat EXCEPT !.responses = Append(@, r)]
     IN chat' =
          IF r.kind = "HTTPError" THEN [c EXCEPT !.state = "raised", !.raised = "LLMError"]
          ELSE IF _needs_max_completion_tokens(r)
          THEN [c EXCEPT !.state = "retry",
                         !.requests = Append(@, Payload2(chat.requests[1], chat.max_tokens))]
          ELSE Finish(c, r)
  /\ UNCHANGED <<pipeline, split, send, mode>>

\* llm.py:87-107: the retry is answered
RetryAnswer(r) ==
  /\ chat.state = "retry"
  /\ LET c == [chat EXCEPT !.responses = Append(@, r)]
     IN chat' =
          IF r.kind = "HTTPError" THEN [c EXCEPT !.state = "raised", !.raised = "LLMError"]
          ELSE Finish(c, r)
  /\ UNCHANGED <<pipeline, split, send, mode>>

ChatNext ==
  \/ \E system \in SystemArgs, max_tokens \in MaxTokensArgs : Complete(system, max_tokens)
  \/ \E r \in LLMResponses : FirstAnswer(r)
  \/ \E r \in LLMResponses : RetryAnswer(r)

ChatSpec == ChatInit /\ [][ChatNext]_vars

\* the first request of the call has been answered
FirstAnswered == chat.state \in {"retry", "returned", "raised"}

\* the retry the code builds for the first payload
ExpectedRetry ==
  [chat.requests[1] EXCEPT !.limit =
     [max_completion_tokens |->
        IF chat.max_tokens # <<>> /\ chat.max_tokens[1] > 0 THEN chat.max_tokens[1]
        ELSE 8192]]

\* C14 as stated: a first answer with status 400 whose body mentions both
\* field names, wherever in the body, is followed by exactly one retry, no
\* other answer is, and no call issues more than two requests.
C14_RetryOnAnyMention ==
  /\ Len(chat.requests) <= 2
  /\ (FirstAnswered =>
        LET r == chat.responses[1]
        IN (Len(chat.requests) = 2) <=>
             (r.kind = "response" /\ r.status = 400 /\ BothNames \subseteq r.head \cup r.tail))
  /\ (Len(chat.requests) = 2 => chat.requests[2] = ExpectedRetry)

\* C14: a first answer with status 400 whose body mentions both field names
\* within its first 5000 characters is followed by exactly one retry, whose
\* payload has no max_tokens and has max_completion_tokens set to the
\* requested limit, or to 8192 when no positive limit was requested; no other
\* first answer is followed by a retry; and no call issues more than two
\* requests, whatever the answer to the retry is.
C14_OneCompatibilityRetry ==
  /\ Len(chat.requests) <= 2
  /\ Len(chat.responses) <= Len(chat.requests)
  /\ (FirstAnswered =>
        LET r == chat.responses[1]
        IN (Len(chat.requests) = 2) <=>
             (r.kind = "response" /\ r.status = 400 /\ BothNames \subseteq r.head))
  /\ (Len(chat.requests) = 2 =>
        /\ chat.requests[2] = ExpectedRetry
        /\ DOMAIN chat.requests[2].limit = {"max_completion_tokens"})
  /\ (Len(chat.responses) = 2 => chat.state \in {"returned", "raised"})

\* an unlimited call was retried with the ceiling of 8192 and its retry was
\* answered with the same status 400 again: the call ended after two requests
C14_Witness ==
  /\ chat.max_tokens = <<0>>
  /\ Len(chat.requests) = 2 /\ Len(chat.responses) = 2
  /\ chat.requests[2].limit = [max_completion_tokens |-> 8192]
  /\ chat.responses[2] = Response(400, BothNames, {}, "error")
  /\ chat.state = "raised"

\* the answer that ended the call is a failure: a transport failure, a status
\* that is not 2xx, a body that is not JSON, or JSON without
\* choices[0].message.content
FailingAnswer(r) ==
  \/ r.kind = "HTTPError"
  \/ r.status >= 400
  \/ r.body \in {"not_json", "no_choices"}

\* C15: a call of openai_chat_completion whose last answer is a failure ends
\* by raising, and whatever it raises is an LLMError.
C15_FailuresSurfaceAsLLMError ==
  chat.state \in {"returned", "raised"} =>
    /\ (FailingAnswer(chat.responses[Len(chat.responses)]) <=> chat.state = "raised")
    /\ (chat.state = "raised" => chat.raised = "LLMError")

(***************************************************************************)
(* _split_text called on its own, telegram.py:15-68.                       *)
(***************************************************************************)
\* longest text and largest limit the splitter is called with
MaxLen == 8
MaxLimit == 4

\* the characters of the texts: a letter, a blank and a newline
Alphabet == {"a", " ", NL}

\* the texts of at most MaxLen characters
SplitTexts == UNION {[1..n -> Alphabet] : n \in 0..MaxLen}

\* a call of _split_text is about to be made with a text and a positive limit
SplitInit ==
  /\ apiKey = None /\ NoRequests
  /\ send = NoSend /\ chat = NoCompletion /\ mode = NoResolution
  /\ split \in {[NoSplit EXCEPT !.text = t, !.limit = limit] :
                  t \in SplitTexts, limit \in 1..MaxLimit}

\* the call returns its chunks
SplitText ==
  /\ ~split.returned
  /\ split' = [split EXCEPT !.returned = TRUE,
                            !.chunks = _split_text(split.text, split.limit)]
  /\ UNCHANGED <<pipeline, send, chat, mode>>

SplitNext == SplitText

SplitSpec == SplitInit /\ [][SplitNext]_vars

\* C16: no chunk _split_text returns is longer than the limit, for every text
\* and every positive limit.
C16_NoChunkExceedsLimit ==
  split.returned =>
    \A i \in DOMAIN split.chunks : Len(split.chunks[i]) <= split.limit

\* a line longer than the limit was cut into a full chunk and a rest
C16_Witness ==
  /\ split.returned /\ split.limit = 3
  /\ split.text = <<"a", "a", "a", "a", "a">>
  /\ split.chunks = <<<<"a", "a", "a">>, <<"a", "a">>>>

\* the chunks put one after the other
RECURSIVE Concat(_)
Concat(chunks) == IF chunks = <<>> THEN <<>> ELSE Head(chunks) \o Concat(Tail(chunks))

\* the characters of a text that are not whitespace, in order
NonWhitespace(t) == SelectSeq(t, LAMBDA c : c \notin Whitespace)

\* C17: for a text longer than the limit, the chunks of _split_text put one
\* after the other hold the non-whitespace characters of the text, each once
\* and in the order of the text.
C17_ConcatenationReproducesText ==
  split.returned /\ Len(split.text) > split.limit =>
    NonWhitespace(Concat(split.chunks)) = NonWhitespace(split.text)

\* a text with a blank-line and a newline boundary was split into three
\* chunks, the separators gone
C17_Witness ==
  /\ split.returned /\ split.limit = 2
  /\ split.text = <<"a", "a", NL, NL, "a", NL, "a", "a">>
  /\ split.chunks = <<<<"a", "a">>, <<"a">>, <<"a", "a">>>>
  /\ Len(Concat(split.chunks)) < Len(split.text)

\* C18: for a text longer than the limit no two neighbouring chunks of
\* _split_text fit into one chunk together, not even joined by a blank line:
\* were there such a pair, the text would have a split with one chunk less
\* that respects the limit and cuts at no other place.
C18_ChunkCountMinimal ==
  split.returned /\ Len(split.text) > split.limit =>
    \A i \in 1..(Len(split.chunks) - 1) :
      Len(split.chunks[i]) + 2 + Len(split.chunks[i + 1]) > split.limit

\* the body of request r is a JSON-encoded string that holds a request object
\* with the required fields
StringEncoded(r) ==
  /\ pc[r] # "idle" /\ raw[r].enc = "string"
  /\ RequiredFields \subseteq DOMAIN raw[r].obj

\* C19: a body that is a JSON-encoded string holding a request object is
\* accepted like the object itself: it passes validation as the object does,
\* never enters the validation-error branch, and its row is the pending row of
\* the object.
C19_StringBodyAccepted ==
  \A r \in Rids :
    StringEncoded(r) =>
      /\ model_validate(raw[r]).ok = model_validate([enc |-> "object", obj |-> raw[r].obj]).ok
      /\ pc[r] \notin {"invalid", "recorded", "rejected"}
      /\ (rows[r] # <<>> => rows[r][1].prompt_slug = PendingSlug(raw[r].obj))

\* the credential as the log may show it
MaskedToken ==
  IF Len(BOT_TOKEN) <= 10 THEN <<"*", "*", "*">>
  ELSE SubSeq(BOT_TOKEN, 1, 6) \o <<"*", "*", "*">>
       \o SubSeq(BOT_TOKEN, Len(BOT_TOKEN) - 3, Len(BOT_TOKEN))

\* what a log line shows as the credential of its request: <<>> when it shows
\* none
ShownCredential(line) ==
  IF line.event # "incoming_puzzlebot" \/ line.json.kind = "None" THEN <<>>
  ELSE IF "bot_api_key" \in DOMAIN line.json.val THEN line.json.val.bot_api_key
  ELSE <<>>

\* C20: no log line written for a request shows the bot credential unmasked,
\* whatever the shape of the body: a line shows no credential at all, or the
\* first 6 and last 4 characters of it around the mask (the mask alone for a
\* credential of 10 characters or fewer).
C20_CredentialMaskedInLogs ==
  \A r \in Rids :
    \A i \in DOMAIN logs[r] :
      ShownCredential(logs[r][i]) \in {<<>>, MaskedToken}

\* the response that encodes the final outcome of request r: success, or an
\* error that names the failing stage
OutcomeResponse(r) ==
  IF ~Row(r).llm_ok THEN [status |-> "error", stage |-> "llm"]
  ELSE IF ~Row(r).telegram_ok THEN [status |-> "error", stage |-> "delivery"]
  ELSE [status |-> "ok", stage |-> "none"]

\* C21: POST /puzzlebot/ai, the one submit operation of the service, answers
\* a validated request in synchronous mode: the response is given only after
\* the pipeline has run to its final persist, and it encodes the final
\* outcome, success or an error that names the failing stage.
C21_ResponseEncodesOutcome ==
  \A r \in Rids :
    Valid(r) /\ ack[r].status # "none" =>
      /\ pc[r] = "done" /\ persists[r] = 1
      /\ ack[r].status = OutcomeResponse(r).status
      /\ (ack[r].status = "error" => ack[r].error = OutcomeResponse(r).stage)

ErrNoApiKey == <<"LLM_API_KEY is not configured">>

\* the prompt of request r resolves without an error, so that the request
\* reaches the LLM stage
Resolved(r) ==
  /\ Valid(r)
  /\ Resolve(InitLocals, body[r]).raised = <<>>
  /\ Resolve(InitLocals, body[r]).l.llm_error = NoText

\* C22: with no LLM API key configured the LLM is never called for any
\* request; a request that reaches the LLM stage gets the configuration error
\* as llm_error with llm_ok false, and goes on as after an LLM failure: by the
\* time it persists it has posted the fallback notice, once, and nothing else,
\* and its final row carries llm_ok false and the configuration error.
C22_NoApiKeyNoLLMCall ==
  ~TruthyStr(apiKey) =>
    \A r \in Rids :
      /\ llmCalls[r] = 0 /\ pc[r] # "llm"
      /\ (Resolved(r) /\ pc[r] \in SendSites \cup {"persist", "done"} =>
            /\ loc[r].llm_error = ErrNoApiKey /\ ~loc[r].llm_ok
            /\ (pc[r] \in SendSites => pc[r] = "send_notice_llm" /\ posts[r] = <<>>)
            /\ (pc[r] \in {"persist", "done"} =>
                  Len(posts[r]) = 1 /\ posts[r][1].kind = "notice")
            /\ (pc[r] = "done" =>
                  ~Row(r).llm_ok /\ Row(r).llm_error = ErrNoApiKey))
      /\ (Resolved(r) => pc[r] \notin {"pdf", "doc", "send_text", "send_notice_tg"})

\* with no key configured, a request for a stored prompt as a document has
\* finished after its notice was delivered
C22_Witness ==
  /\ apiKey = None
  /\ \E r \in Rids :
       /\ Resolved(r) /\ BodySendPdf(body[r]) /\ pc[r] = "done"
       /\ posts[r] = <<[kind |-> "notice", ok |-> TRUE]>>
       /\ Row(r).llm_error = ErrNoApiKey

\* the row request r has when it is processed alone: its pending row until the
\* final persist, then the row the final persist makes of its own body and
\* its own locals
RowAlone(r) ==
  IF pc[r] = "done"
  THEN [RequestLog(r, loc[r].prompt_slug_for_log, UserIdOr0(body[r]), body[r].chat_id,
                   BodyParams(body[r]))
          EXCEPT !.rendered_system = loc[r].rendered_system,
                 !.rendered_user = loc[r].rendered_user,
                 !.llm_ok = loc[r].llm_ok,
                 !.llm_error = loc[r].llm_error,
                 !.llm_response_text = loc[r].llm_text,
                 !.telegram_ok = loc[r].tg_ok,
                 !.telegram_error = loc[r].tg_error]
  ELSE RequestLog(r, PendingSlug(body[r]), UserIdOr0(body[r]), body[r].chat_id,
                  BodyParams(body[r]))

\* C23: under every interleaving, a step that changes the rows of a request
\* is a step of that request and changes the rows, the locals and the
\* position of no other request; and the row of a validated request is at
\* every time the row it has when processed alone, whatever the other requests
\* did in between.
C23_PipelinesIsolated ==
  [][/\ \A r \in Rids :
          rows'[r] # rows[r] =>
            /\ pc'[r] # pc[r]
            /\ \A q \in Rids \ {r} :
                  rows'[q] = rows[q] /\ loc'[q] = loc[q] /\ pc'[q] = pc[q]
     /\ \A r \in Rids :
          (Valid(r) /\ pc[r] \in InFlight \cup {"done"})' => (rows[r] = <<RowAlone(r)>>)'
    ]_vars

\* the second request has finished with a failed LLM stage while the first
\* one, accepted before it, still waits for the LLM with its pending row
C23_Witness ==
  /\ MaxRequests >= 2
  /\ pc[1] = "llm" /\ PendingShape(rows[1][1])
  /\ pc[2] = "done" /\ ~Row(2).llm_ok /\ Row(2).llm_error # NoText

(***************************************************************************)
(* The prompt resolution of _process_request on its own, api.py:141-166:   *)
(* one validated body, the locals and the LLM parameters it resolves to.   *)
(***************************************************************************)
\* settings.llm_default_model, settings.py:46
DefaultModel == "gpt-4o-mini"

\* record rec with field k set to v
With(rec, k, v) == [x \in DOMAIN rec \cup {k} |-> IF x = k THEN v ELSE rec[x]]

\* the bodies in bs, each without field k and with k set to each value of vs
Opt(bs, k, vs) == bs \cup {With(b, k, v) : b \in bs, v \in vs}

\* validated bodies: every combination of the optional fields of
\* PuzzlebotAIRequest that the resolution reads (schemas.py:43-64)
Bodies ==
  LET b0 == {[bot_api_key |-> BOT_TOKEN, chat_id |-> 7]}
      b1 == Opt(b0, "prompt", {"Say hi", ""})
      b2 == Opt(b1, "system", {"Be brief"})
      b3 == Opt(b2, "prompt_id", {"daily", "nosuch", ""})
      b4 == Opt(b3, "params", {[name |-> "Bob"]})
      b5 == Opt(b4, "model", {"gpt-5"})
      b6 == Opt(b5, "temperature", {"1.0"})
  IN Opt(b6, "max_tokens", {0, 256})

\* LLMParams that takes the parameters of the stored prompt whenever the body
\* names one, the per-call overrides otherwise
LLMParamsStoredFirst(b) ==
  IF TruthyStr(StrField(b, "prompt_id")) /\ b.prompt_id \in DOMAIN PromptStore
  THEN [assigned |-> TRUE, lookup |-> TRUE,
        model |-> PromptStore[b.prompt_id].model,
        temperature |-> PromptStore[b.prompt_id].temperature,
        max_tokens |-> PromptStore[b.prompt_id].max_tokens]
  ELSE [assigned |-> TRUE, lookup |-> FALSE,
        model |-> IF TruthyStr(StrField(b, "model")) THEN b.model ELSE DefaultModel,
        temperature |-> IF "temperature" \in DOMAIN b THEN b.temperature ELSE "0.2",
        max_tokens |-> IF "max_tokens" \in DOMAIN b THEN b.max_tokens ELSE 0]

\* api.py:147-161: the model, temperature and max_tokens of the LLM call, and
\* whether the prompt store was asked; assigned is false when
\* _get_prompt_by_slug raised before they were set
LLMParams(b) ==
  IF StrField(b, "prompt") # None
  THEN [assigned |-> TRUE, lookup |-> FALSE,
        model |-> IF TruthyStr(StrField(b, "model")) THEN b.model ELSE DefaultModel,
        temperature |-> IF "temperature" \in DOMAIN b THEN b.temperature ELSE "0.2",
        max_tokens |-> IF "max_tokens" \in DOMAIN b THEN b.max_tokens ELSE 0]
  ELSE IF ~TruthyStr(StrField(b, "prompt_id"))
  THEN [assigned |-> TRUE, lookup |-> FALSE,
        model |-> DefaultModel, temperature |-> "0.2", max_tokens |-> 0]
  ELSE LET got == _get_prompt_by_slug(b.prompt_id)
       IN IF ~got.found
          THEN [assigned |-> FALSE, lookup |-> TRUE,
                model |-> None, temperature |-> None, max_tokens |-> 0]
          ELSE [assigned |-> TRUE, lookup |-> TRUE,
                model |-> got.prompt.model, temperature |-> got.prompt.temperature,
                max_tokens |-> got.prompt.max_tokens]

\* a validated body is about to be resolved
ModeInit ==
  /\ apiKey = None /\ NoRequests
  /\ split = NoSplit /\ send = NoSend /\ chat = NoCompletion
  /\ mode \in {[NoResolution EXCEPT !.body = b] : b \in Bodies}

\* api.py:141-166
ResolveMode ==
  /\ ~mode.resolved
  /\ LET res == Resolve(InitLocals, mode.body)
     IN mode' = [mode EXCEPT !.resolved = TRUE, !.raised = res.raised, !.l = res.l,
                             !.params = LLMParams(mode.body)]
  /\ UNCHANGED <<pipeline, split, send, chat>>

ModeNext == ResolveMode

ModeSpec == ModeInit /\ [][ModeNext]_vars

\* C24: a body with prompt present, with or without prompt_id, resolves
\* without a look at the prompt store: the literal prompt and system are the
\* user and system text, the slug for the log is __raw__, no error is set, and
\* model, temperature and max_tokens are the overrides of the body or else the
\* default model, 0.2 and 0; the parameters of a stored prompt are used only
\* when prompt is absent.
C24_LiteralPromptPrecedence ==
  mode.resolved =>
    LET b == mode.body
    IN /\ ("prompt" \in DOMAIN b =>
             /\ ~mode.params.lookup /\ mode.raised = <<>>
             /\ mode.l.rendered_user = <<b.prompt>>
             /\ mode.l.rendered_system =
                  (IF "system" \in DOMAIN b THEN <<b.system>> ELSE NoText)
             /\ mode.l.prompt_slug_for_log = "__raw__"
             /\ mode.l.llm_error = NoText
             /\ mode.params.model =
                  (IF "model" \in DOMAIN b THEN b.model ELSE "gpt-4o-mini")
             /\ mode.params.temperature =
                  (IF "temperature" \in DOMAIN b THEN b.temperature ELSE "0.2")
             /\ mode.params.max_tokens =
                  (IF "max_tokens" \in DOMAIN b THEN b.max_tokens ELSE 0))
       /\ (mode.params.lookup => "prompt" \notin DOMAIN b)
       /\ ("prompt" \notin DOMAIN b /\ "prompt_id" \in DOMAIN b
             /\ b.prompt_id \in DOMAIN PromptStore =>
             /\ mode.params.lookup
             /\ mode.params.model = PromptStore[b.prompt_id].model
             /\ mode.params.temperature = PromptStore[b.prompt_id].temperature
             /\ mode.params.max_tokens = PromptStore[b.prompt_id].max_tokens)

\* a body with a literal prompt, the slug of a stored prompt and no overrides
\* resolved to the literal prompt with the defaults
C24_Witness ==
  /\ mode.resolved
  /\ mode.body = [prompt |-> "Say hi", prompt_id |-> "daily",
                  bot_api_key |-> BOT_TOKEN, chat_id |-> 7]
  /\ mode.l.rendered_user = <<"Say hi">>
  /\ mode.params = [assigned |-> TRUE, lookup |-> FALSE, model |-> "gpt-4o-mini",
                    temperature |-> "0.2", max_tokens |-> 0]

\* C25: a validated request whose final persist has run has had at least one
\* send to the chat attempted: the LLM text, the document or the fallback
\* notice, delivered or not.
C25_DeliveryAttemptedBeforePersist ==
  \A r \in Rids :
    Valid(r) /\ persists[r] >= 1 => Len(posts[r]) >= 1

\* C26: in the final row of a validated request llm_ok true goes with no
\* llm_error: an error raised after the LLM stage succeeded is not recorded as
\* an LLM error.
C26_LLMOkHasNoLLMError ==
  \A r \in Rids :
    Valid(r) /\ persists[r] >= 1 /\ Row(r).llm_ok => Row(r).llm_error = NoText

\* C27: the final row of a validated request with llm_ok false carries an
\* llm_error that is set and not empty, which tells it from the pending row
\* (llm_ok false, no llm_error).
C27_FailedRowHasLLMError ==
  \A r \in Rids :
    /\ Valid(r) /\ persists[r] >= 1 /\ ~Row(r).llm_ok =>
         Row(r).llm_error # NoText /\ Row(r).llm_error # <<>>
    /\ Valid(r) /\ persists[r] = 0 /\ LatestRow(rows, r) # 0 =>
         ~Row(r).llm_ok /\ Row(r).llm_error = NoText

\* a request has finished with llm_ok false and its error in the row, after a
\* poll of its pending row would have shown llm_ok false and no error
C27_Witness ==
  \E r \in Rids :
    /\ Valid(r) /\ persists[r] = 1 /\ ~Row(r).llm_ok
    /\ Row(r).llm_error = <<"LLM request failed">>
    /\ llmCalls[r] = 1

\* the identifying fields of a row of request_logs
Identity(row) ==
  [prompt_slug |-> row.prompt_slug, user_id |-> row.user_id,
   chat_id |-> row.chat_id, params |-> row.params]

\* C28: the final persist of a validated request leaves prompt_slug, user_id,
\* chat_id and params of its row as the pending row had them.
C28_FinalPersistKeepsIdentity ==
  [][\A r \in Rids :
       Valid(r) /\ persists'[r] = persists[r] + 1 /\ LatestRow(rows, r) # 0 =>
         Identity(rows'[r][LatestRow(rows', r)]) = Identity(Row(r))]_vars

\* the document of request r was rendered and its one upload was accepted
DocumentDelivered(r) ==
  /\ Valid(r) /\ BodySendPdf(body[r])
  /\ \E i \in DOMAIN posts[r] : posts[r][i] = [kind |-> "document", ok |-> TRUE]

\* C29: when a document was requested, rendered and delivered, the upload is
\* the only send of the pipeline, neither the LLM text nor the fallback notice
\* is posted as a message, and the final row has telegram_ok true and no
\* telegram_error.
C29_DeliveredDocumentIsOnlySend ==
  \A r \in Rids :
    DocumentDelivered(r) =>
      /\ posts[r] = <<[kind |-> "document", ok |-> TRUE]>>
      /\ pc[r] \in {"persist", "done"}
      /\ loc[r].tg_ok /\ loc[r].tg_error = NoText
      /\ (persists[r] >= 1 =>
            /\ Row(r).telegram_ok /\ Row(r).telegram_error = NoText
            /\ Row(r).llm_ok)

\* a request finished after its document was delivered
C29_Witness ==
  \E r \in Rids :
    /\ DocumentDelivered(r) /\ pc[r] = "done" /\ persists[r] = 1
    /\ Len(posts[r]) = 1 /\ Row(r).telegram_ok

\* C30: _split_text returns at least one chunk for every text, so that a
\* send_message that returns has posted at least one message.
C30_SplitterReturnsAChunk ==
  /\ send.state # "idle" => Len(send.chunks) >= 1
  /\ send.state = "returned" =>
        \E i \in DOMAIN send.posted : send.posted[i].ok

====
